---- MODULE Spec2Model ----
(***************************************************************************)
(* Reaction engine of TGMicroAtmosSim (src/src/reactions.rs).              *)
(*                                                                         *)
(* f64 values are modelled as decimal floating-point numbers               *)
(* [m |-> signed mantissa, e |-> decimal exponent] with Digits significant *)
(* digits, round-to-nearest, overflow to +-infinity above 10^MaxExp10,     *)
(* and NaN.  Equality of normalised finite values is record equality.      *)
(***************************************************************************)
EXTENDS Integers, Sequences, FiniteSets, TLC

(* ------------------------------ f64 model ------------------------------ *)

Digits == 4
MaxExp10 == 308
MinExp10 == -324
SpecialExp == MaxExp10 + 1

\* 10^k for k in 0..9
Pow10(k) ==
    IF k <= 0 THEN 1
    ELSE << 10, 100, 1000, 10000, 100000, 1000000, 10000000, 100000000,
            1000000000 >>[k]

\* number of decimal digits of a in 0..2^31-1
NDigits(a) ==
    IF a < 100000
    THEN (IF a < 100 THEN (IF a < 10 THEN 1 ELSE 2)
          ELSE IF a < 1000 THEN 3 ELSE IF a < 10000 THEN 4 ELSE 5)
    ELSE (IF a < 10000000 THEN (IF a < 1000000 THEN 6 ELSE 7)
          ELSE IF a < 100000000 THEN 8 ELSE IF a < 1000000000 THEN 9 ELSE 10)

Abs(n) == IF n < 0 THEN -n ELSE n
Sgn(n) == IF n < 0 THEN -1 ELSE IF n > 0 THEN 1 ELSE 0

Zero == [m |-> 0, e |-> 0]
PInf == [m |-> 1, e |-> SpecialExp]
NInf == [m |-> -1, e |-> SpecialExp]
NaN == [m |-> 0, e |-> SpecialExp]

IsNaN(x) == x = NaN
IsInf(x) == x = PInf \/ x = NInf
IsFinite(x) == x.e # SpecialExp
SignOf(x) == Sgn(x.m)
InfOf(s) == IF s < 0 THEN NInf ELSE PInf

\* a is a mantissa of exactly Digits digits
Pack(s, a, e) ==
    IF e + Digits - 1 > MaxExp10 THEN InfOf(s)
    ELSE IF e + Digits - 1 < MinExp10 THEN Zero
    ELSE [m |-> s * a, e |-> e]

\* the f64 nearest to m * 10^e
Norm(m, e) ==
    IF m = 0 THEN Zero
    ELSE LET a == Abs(m)
             k == NDigits(a) - Digits
         IN IF k > 0
            THEN LET r == (a + (Pow10(k) \div 2)) \div Pow10(k)
                 IN IF r >= Pow10(Digits)
                    THEN Pack(Sgn(m), r \div 10, e + k + 1)
                    ELSE Pack(Sgn(m), r, e + k)
            ELSE Pack(Sgn(m), a * Pow10(-k), e + k)

F(m, e) == Norm(m, e)
FInt(n) == Norm(n, 0)
One == FInt(1)

Neg(x) == [m |-> -x.m, e |-> x.e]

FAdd(x, y) ==
    IF IsNaN(x) \/ IsNaN(y) THEN NaN
    ELSE IF IsInf(x) THEN (IF IsInf(y) /\ y # x THEN NaN ELSE x)
    ELSE IF IsInf(y) THEN y
    ELSE IF x.m = 0 THEN y
    ELSE IF y.m = 0 THEN x
    ELSE LET hi == IF x.e >= y.e THEN x ELSE y
             lo == IF x.e >= y.e THEN y ELSE x
             d == hi.e - lo.e
         IN IF d > Digits + 2 THEN hi
            ELSE Norm(hi.m * 100 + Sgn(lo.m) * ((Abs(lo.m) * 100) \div Pow10(d)),
                      hi.e - 2)

FSub(x, y) == FAdd(x, Neg(y))

FMul(x, y) ==
    IF IsNaN(x) \/ IsNaN(y) THEN NaN
    ELSE IF IsInf(x) \/ IsInf(y)
         THEN (IF x.m = 0 \/ y.m = 0 THEN NaN ELSE InfOf(SignOf(x) * SignOf(y)))
    ELSE IF x.m = 0 \/ y.m = 0 THEN Zero
    ELSE LET a == Abs(x.m)
             b == Abs(y.m)
             q == a * (b \div 1000) + (a * (b % 1000)) \div 1000
         IN Norm(SignOf(x) * SignOf(y) * q, x.e + y.e + 3)

FDiv(x, y) ==
    IF IsNaN(x) \/ IsNaN(y) THEN NaN
    ELSE IF IsInf(x) THEN (IF IsInf(y) THEN NaN
                           ELSE InfOf(SignOf(x) * (IF y.m < 0 THEN -1 ELSE 1)))
    ELSE IF IsInf(y) THEN Zero
    ELSE IF y.m = 0 THEN (IF x.m = 0 THEN NaN ELSE InfOf(SignOf(x)))
    ELSE IF x.m = 0 THEN Zero
    ELSE LET a == Abs(x.m)
             b == Abs(y.m)
             q1 == (a * 1000) \div b
             r1 == (a * 1000) % b
             q2 == (r1 * 1000) \div b
         IN Norm(SignOf(x) * SignOf(y) * (q1 * 1000 + q2), x.e - y.e - 6)

\* IEEE comparisons: every comparison with NaN is false
FLt(x, y) ==
    /\ ~IsNaN(x) /\ ~IsNaN(y) /\ x # y
    /\ IF x = NInf \/ y = PInf THEN TRUE
       ELSE IF x = PInf \/ y = NInf THEN FALSE
       ELSE FSub(x, y).m < 0
FEq(x, y) == ~IsNaN(x) /\ ~IsNaN(y) /\ x = y
FLe(x, y) == FLt(x, y) \/ FEq(x, y)
FGt(x, y) == FLt(y, x)
FGe(x, y) == FLe(y, x)
FNe(x, y) == ~FEq(x, y)

\* f64::min / f64::max: a NaN operand is ignored
FMin(x, y) == IF IsNaN(x) THEN y ELSE IF IsNaN(y) THEN x ELSE IF FLt(y, x) THEN y ELSE x
FMax(x, y) == IF IsNaN(x) THEN y ELSE IF IsNaN(y) THEN x ELSE IF FLt(x, y) THEN y ELSE x

FFloor(x) ==
    IF ~IsFinite(x) \/ x.e >= 0 THEN x
    ELSE IF -x.e > Digits THEN (IF x.m < 0 THEN FInt(-1) ELSE Zero)
    ELSE Norm(x.m \div Pow10(-x.e), 0)

\* x^n by repeated multiplication; a product that has become NaN stays NaN
RECURSIVE PowIFrom(_, _, _)
PowIFrom(x, n, prod) ==
    IF n = 0 \/ IsNaN(prod) THEN prod ELSE PowIFrom(x, n - 1, FMul(prod, x))

PowI(x, n) == IF n < 0 THEN FDiv(One, PowIFrom(x, -n, One)) ELSE PowIFrom(x, n, One)

\* integer value of a finite float of small magnitude (truncating)
ToInt(x) == IF x.e >= 0 THEN x.m * Pow10(x.e) ELSE x.m \div Pow10(-x.e)

\* fractional part of log10, in 2^-LogBits units, by repeated squaring of
\* y in [1, 10): each squaring yields the next binary digit
LogBits == 10

\* 2^k for k in 0..12
Pow2(k) ==
    IF k <= 0 THEN 1
    ELSE << 2, 4, 8, 16, 32, 64, 128, 256, 512, 1024, 2048, 4096 >>[k]

RECURSIVE Log10Frac(_, _)
Log10Frac(y, n) ==
    IF n = 0 THEN 0
    ELSE LET sq == FMul(y, y)
         IN IF FGe(sq, FInt(10))
            THEN Pow2(n - 1) + Log10Frac(FDiv(sq, FInt(10)), n - 1)
            ELSE Log10Frac(sq, n - 1)

FLog10(x) ==
    IF IsNaN(x) \/ x.m < 0 THEN NaN
    ELSE IF x = PInf THEN PInf
    ELSE IF x.m = 0 THEN NInf
    ELSE LET y == [m |-> x.m, e |-> 1 - Digits]
             fr == Log10Frac(y, LogBits)
         IN FAdd(FInt(x.e + Digits - 1), FDiv(FInt(fr), FInt(Pow2(LogBits))))

\* 10^(2^-k), k = 1..LogBits
Exp10Tab == << F(316228, -5), F(177828, -5), F(133352, -5), F(115478, -5),
               F(107461, -5), F(103663, -5), F(101815, -5), F(100904, -5),
               F(100451, -5), F(100225, -5), F(100112, -5) >>

\* 10^(fi / 2^LogBits): the product of the table entries of the binary
\* digits of fi that are set
RECURSIVE Exp10FracFrom(_, _, _)
Exp10FracFrom(fi, k, prod) ==
    IF k > LogBits \/ IsNaN(prod) THEN prod
    ELSE Exp10FracFrom(fi, k + 1,
                       IF (fi \div Pow2(LogBits - k)) % 2 = 1
                       THEN FMul(prod, Exp10Tab[k])
                       ELSE prod)

Exp10Frac(fi) == Exp10FracFrom(fi, 1, One)

FExp10(y) ==
    IF IsNaN(y) THEN NaN
    ELSE IF y = PInf \/ (IsFinite(y) /\ FGt(y, FInt(400))) THEN PInf
    ELSE IF y = NInf \/ FLt(y, FInt(-400)) THEN Zero
    ELSE LET n == ToInt(FFloor(y))
             f == FSub(y, FInt(n))
             fi == ToInt(FFloor(FMul(f, FInt(Pow2(LogBits)))))
             r == Exp10Frac(fi)
         IN Pack(1, r.m, r.e + n)

\* f64::powf, f64::log, f64::sqrt
FPowF(b, x) == IF IsFinite(x) /\ x.m = 0 THEN One ELSE FExp10(FMul(x, FLog10(b)))
FLog(x, b) == FDiv(FLog10(x), FLog10(b))
FSqrt(x) ==
    IF IsNaN(x) \/ x.m < 0 THEN NaN
    ELSE IF x.m = 0 \/ x = PInf THEN x
    ELSE FExp10(FDiv(FLog10(x), FInt(2)))

Pi == F(314159, -5)
FSin(x) ==
    IF ~IsFinite(x) THEN NaN
    ELSE LET twoPi == FMul(FInt(2), Pi)
             r0 == FSub(x, FMul(twoPi, FFloor(FAdd(FDiv(x, twoPi), F(5, -1)))))
             half == FDiv(Pi, FInt(2))
             r == IF FGt(r0, half) THEN FSub(Pi, r0)
                  ELSE IF FLt(r0, Neg(half)) THEN FSub(Neg(Pi), r0)
                  ELSE r0
         IN FAdd(FSub(r, FDiv(PowI(r, 3), FInt(6))),
                 FSub(FDiv(PowI(r, 5), FInt(120)), FDiv(PowI(r, 7), FInt(5040))))

(* --------------------------- constants table --------------------------- *)
\* crate::constants (C::*): game-tuning parameters, values of the reference
\* game's reaction table

MINIMUM_MOLE_COUNT == F(1, -2)
MINIMUM_HEAT_CAPACITY == F(3, -4)
R_IDEAL_GAS_EQUATION == F(831, -2)
ONE_ATMOSPHERE == F(101325, -3)
T0C == F(27315, -2)
N2O_DECOMPOSITION_MIN_ENERGY == FInt(1400)
N2O_DECOMPOSITION_ENERGY_RELEASED == F(2, 5)
PLASMA_MINIMUM_BURN_TEMPERATURE == F(37315, -2)
PLASMA_TEMP_SCALE == FInt(1270)
PLASMA_BURN_RATE_DELTA == FInt(9)
PLASMA_OXYGEN_FULLBURN == FInt(10)
OXYGEN_BURN_RATE_BASE == F(14, -1)
SUPER_SATURATION_THRESHOLD == FInt(96)
FIRE_PLASMA_ENERGY_RELEASED == F(3, 6)
FIRE_HYDROGEN_ENERGY_RELEASED == F(28, 4)
FIRE_CARBON_ENERGY_RELEASED == F(1, 5)
FIRE_MINIMUM_TEMPERATURE_TO_EXIST == F(37315, -2)
TRITIUM_BURN_OXY_FACTOR == FInt(100)
TRITIUM_BURN_TRIT_FACTOR == FInt(10)
FUSION_TRITIUM_MOLES_USED == FInt(1)
FUSION_MOLE_THRESHOLD == FInt(250)
FUSION_TEMPERATURE_THRESHOLD == F(1, 4)
FUSION_SCALE_DIVISOR == FInt(10)
FUSION_MINIMAL_SCALE == FInt(50)
FUSION_BASE_TEMPSCALE == FInt(6)
FUSION_BUFFER_DIVISOR == FInt(1)
FUSION_SLOPE_DIVISOR == FInt(1250)
FUSION_INSTABILITY_ENDOTHERMALITY == FInt(2)
FUSION_ENERGY_TRANSLATION_EXPONENT == F(125, -2)
FUSION_MIDDLE_ENERGY_REFERENCE == F(1, 6)
FUSION_TRITIUM_CONVERSION_COEFFICIENT == F(1, -10)
TOROID_CALCULATED_THRESHOLD == F(596, -2)
INSTABILITY_GAS_POWER_FACTOR == F(3, -3)
PLASMA_BINDING_ENERGY == F(2, 7)
NITRYL_FORMATION_ENERGY == F(1, 5)
STIMULUM_HEAT_SCALE == F(1, 5)
STIMULUM_FIRST_RISE == F(65, -2)
STIMULUM_FIRST_DROP == F(65, -3)
STIMULUM_SECOND_RISE == F(9, -4)
STIMULUM_ABSOLUTE_DROP == F(335, -8)
NOBLIUM_FORMATION_ENERGY == F(2, 9)

(* ------------------------- gas species registry ------------------------ *)

GasOrder == << "O2", "N2", "CO2", "Pl", "H2", "H2O", "N2O", "NO2", "BZ", "ST",
               "HNb", "PlOx" >>
Gas == { GasOrder[i] : i \in 1..Len(GasOrder) }

\* per-species specific heat capacity C_s
specific_heat ==
    [O2 |-> FInt(20), N2 |-> FInt(20), CO2 |-> FInt(30), Pl |-> FInt(200),
     H2 |-> FInt(10), H2O |-> FInt(40), N2O |-> FInt(40), NO2 |-> FInt(20),
     BZ |-> FInt(20), ST |-> FInt(5), HNb |-> FInt(2000), PlOx |-> FInt(80)]

\* per-species fusion-power weight w_s
fusion_power ==
    [O2 |-> Zero, N2 |-> Zero, CO2 |-> FInt(3), Pl |-> Zero,
     H2 |-> FInt(1), H2O |-> FInt(8), N2O |-> FInt(10), NO2 |-> FInt(15),
     BZ |-> FInt(8), ST |-> FInt(7), HNb |-> FInt(10), PlOx |-> FInt(10)]

(* ------------------------ gas vector and mixture ----------------------- *)

\* gen_gas_vec!: entries are <<species, condition, moles>>; an entry whose
\* condition is false contributes nothing
RECURSIVE VecSumFrom(_, _, _, _)
VecSumFrom(entries, g, i, sum) ==
    IF i > Len(entries) \/ IsNaN(sum) THEN sum
    ELSE VecSumFrom(entries, g, i + 1,
                    IF entries[i][1] = g /\ entries[i][2]
                    THEN FAdd(sum, entries[i][3])
                    ELSE sum)

VecSum(entries, g) == VecSumFrom(entries, g, 1, Zero)

\* the vector is built whole, one entry per species of the registry
gen_gas_vec(entries) ==
    [O2 |-> VecSum(entries, "O2"), N2 |-> VecSum(entries, "N2"),
     CO2 |-> VecSum(entries, "CO2"), Pl |-> VecSum(entries, "Pl"),
     H2 |-> VecSum(entries, "H2"), H2O |-> VecSum(entries, "H2O"),
     N2O |-> VecSum(entries, "N2O"), NO2 |-> VecSum(entries, "NO2"),
     BZ |-> VecSum(entries, "BZ"), ST |-> VecSum(entries, "ST"),
     HNb |-> VecSum(entries, "HNb"), PlOx |-> VecSum(entries, "PlOx")]

\* Sum over the species, in registry order, of gases[s] * weight[s]; a sum
\* that has become NaN stays NaN
RECURSIVE WeightedSumFrom(_, _, _, _)
WeightedSumFrom(gases, weight, i, sum) ==
    IF i > Len(GasOrder) \/ IsNaN(sum) THEN sum
    ELSE WeightedSumFrom(gases, weight, i + 1,
                         FAdd(sum, FMul(gases[GasOrder[i]], weight[GasOrder[i]])))

WeightedSum(gases, weight) == WeightedSumFrom(gases, weight, 1, Zero)

RECURSIVE TotalMolesFrom(_, _, _)
TotalMolesFrom(gases, i, sum) ==
    IF i > Len(GasOrder) \/ IsNaN(sum) THEN sum
    ELSE TotalMolesFrom(gases, i + 1, FAdd(sum, gases[GasOrder[i]]))

TotalMoles(gases) == TotalMolesFrom(gases, 1, Zero)

get_heat_capacity(gases) == WeightedSum(gases, specific_heat)
get_energy(gm) == FMul(get_heat_capacity(gm.gases), gm.temperature)
get_pressure(gm) ==
    FDiv(FMul(FMul(TotalMoles(gm.gases), R_IDEAL_GAS_EQUATION), gm.temperature),
         gm.volume)
get_fusion_power(gm) == WeightedSum(gm.gases, fusion_power)

RawAdd(gases, delta, g) == FAdd(gases[g], delta[g])

\* the element-wise sum without the clamp
GasVecAdd_unclamped(gases, delta) ==
    [O2 |-> RawAdd(gases, delta, "O2"), N2 |-> RawAdd(gases, delta, "N2"),
     CO2 |-> RawAdd(gases, delta, "CO2"), Pl |-> RawAdd(gases, delta, "Pl"),
     H2 |-> RawAdd(gases, delta, "H2"), H2O |-> RawAdd(gases, delta, "H2O"),
     N2O |-> RawAdd(gases, delta, "N2O"), NO2 |-> RawAdd(gases, delta, "NO2"),
     BZ |-> RawAdd(gases, delta, "BZ"), ST |-> RawAdd(gases, delta, "ST"),
     HNb |-> RawAdd(gases, delta, "HNb"), PlOx |-> RawAdd(gases, delta, "PlOx")]

ClampedAdd(gases, delta, g) == FMax(Zero, FAdd(gases[g], delta[g]))

\* GasVector + GasVector: element-wise, clamped at zero
GasVecAdd(gases, delta) ==
    [O2 |-> ClampedAdd(gases, delta, "O2"), N2 |-> ClampedAdd(gases, delta, "N2"),
     CO2 |-> ClampedAdd(gases, delta, "CO2"), Pl |-> ClampedAdd(gases, delta, "Pl"),
     H2 |-> ClampedAdd(gases, delta, "H2"), H2O |-> ClampedAdd(gases, delta, "H2O"),
     N2O |-> ClampedAdd(gases, delta, "N2O"), NO2 |-> ClampedAdd(gases, delta, "NO2"),
     BZ |-> ClampedAdd(gases, delta, "BZ"), ST |-> ClampedAdd(gases, delta, "ST"),
     HNb |-> ClampedAdd(gases, delta, "HNb"),
     PlOx |-> ClampedAdd(gases, delta, "PlOx")]

\* gm + gen_gas_mix_with_energy!(with(delta) at(energy)): the energy-preserving
\* composition
GmAdd(gm, delta, energy) ==
    LET e0 == get_energy(gm)
        gases2 == GasVecAdd(gm.gases, delta)
        hc2 == get_heat_capacity(gases2)
    IN [gases |-> gases2,
        volume |-> gm.volume,
        temperature |-> IF FGt(hc2, Zero) THEN FDiv(FAdd(e0, energy), hc2) ELSE Zero]

adjust_thermal_energy(gm, delta) ==
    LET hc == get_heat_capacity(gm.gases)
    IN [gm EXCEPT !.temperature = FMax(Zero, FDiv(FAdd(get_energy(gm), delta), hc))]

\* PartialEq of GasMixture: field-wise f64 equality
GmEq(a, b) ==
    /\ \A g \in Gas : FEq(a.gases[g], b.gases[g])
    /\ FEq(a.volume, b.volume)
    /\ FEq(a.temperature, b.temperature)

\* reaction!(... with(mins) at(min_temperature) ...): the activation predicate
Active(gm, mins, min_temperature) ==
    /\ \A i \in 1..Len(mins) : FGe(gm.gases[mins[i][1]], mins[i][2])
    /\ FGe(gm.temperature, min_temperature)

(* ------------------------------ reactions ------------------------------ *)

\* the guard with <= in place of <
verify_hnob_inclusive(gm) == FLe(gm.gases["HNb"], FInt(5))

verify_hnob(gm) == FLt(gm.gases["HNb"], FInt(5))

atmos_mod(lhs, rhs) == FSub(lhs, FMul(rhs, FFloor(FDiv(lhs, rhs))))

n2o_decomp_active(gm) ==
    Active(gm, << <<"N2O", MINIMUM_MOLE_COUNT>> >>, N2O_DECOMPOSITION_MIN_ENERGY)

n2o_decomp(gm) ==
    IF ~n2o_decomp_active(gm) THEN gm
    ELSE LET n2o == gm.gases["N2O"]
             t == gm.temperature
             burned_fuel ==
                 FMul(FMax(FMul(F(2, -5), FSub(t, FMul(F(1, -5), PowI(t, 2)))), Zero),
                      n2o)
         IN IF FLe(burned_fuel, Zero) THEN gm
            ELSE GmAdd(gm,
                       gen_gas_vec(<< <<"N2O", TRUE, Neg(burned_fuel)>>,
                                      <<"O2", TRUE, FDiv(burned_fuel, FInt(2))>>,
                                      <<"N2", TRUE, burned_fuel>> >>),
                       FMul(N2O_DECOMPOSITION_ENERGY_RELEASED, burned_fuel))

plasma_fire_active(gm) ==
    Active(gm, << <<"Pl", MINIMUM_MOLE_COUNT>>, <<"O2", MINIMUM_MOLE_COUNT>> >>,
           PLASMA_MINIMUM_BURN_TEMPERATURE)

plasma_fire(gm) ==
    IF ~plasma_fire_active(gm) THEN gm
    ELSE LET pl == gm.gases["Pl"]
             o2 == gm.gases["O2"]
             t == gm.temperature
             temp_scale ==
                 FMin(FDiv(FSub(t, PLASMA_MINIMUM_BURN_TEMPERATURE), PLASMA_TEMP_SCALE),
                      One)
             rate0 == FDiv(FMul(pl, temp_scale), PLASMA_BURN_RATE_DELTA)
             rate1 == IF FGt(o2, FMul(pl, PLASMA_OXYGEN_FULLBURN))
                      THEN rate0
                      ELSE FDiv(rate0, PLASMA_OXYGEN_FULLBURN)
             oxygen_burn_rate == FSub(OXYGEN_BURN_RATE_BASE, temp_scale)
             plasma_burn_rate == FMin(FMin(pl, rate1), FDiv(o2, oxygen_burn_rate))
             is_satured == FGt(FDiv(o2, pl), SUPER_SATURATION_THRESHOLD)
             energy_release == FMul(plasma_burn_rate, FIRE_PLASMA_ENERGY_RELEASED)
         IN GmAdd(gm,
                  gen_gas_vec(<< <<"Pl", TRUE, Neg(plasma_burn_rate)>>,
                                 <<"O2", TRUE, FMul(Neg(plasma_burn_rate), oxygen_burn_rate)>>,
                                 <<"H2", is_satured, plasma_burn_rate>>,
                                 <<"CO2", ~is_satured, plasma_burn_rate>> >>),
                  energy_release)

trit_fire_active(gm) ==
    Active(gm, << <<"H2", MINIMUM_MOLE_COUNT>>, <<"O2", MINIMUM_MOLE_COUNT>> >>,
           FAdd(FInt(100), T0C))

\* the block after with_gm_as(gm) =>
trit_fire_body(gm) ==
    LET e == get_energy(gm)
        h2 == gm.gases["H2"]
        o2 == gm.gases["O2"]
        o2_no_combust == FLt(o2, h2) \/ FLt(e, MINIMUM_HEAT_CAPACITY)
        burned_fuel == IF o2_no_combust THEN FDiv(o2, TRITIUM_BURN_OXY_FACTOR) ELSE h2
        primary_energy_release == FMul(FIRE_HYDROGEN_ENERGY_RELEASED, burned_fuel)
        extra_energy_release ==
            IF ~o2_no_combust
            THEN FMul(primary_energy_release, FSub(TRITIUM_BURN_TRIT_FACTOR, One))
            ELSE Zero
        energy_release == FAdd(extra_energy_release, primary_energy_release)
    IN GmAdd(gm,
             gen_gas_vec(<< <<"H2O", TRUE, burned_fuel>>,
                            <<"H2", o2_no_combust, Neg(burned_fuel)>>,
                            <<"H2", ~o2_no_combust,
                              FDiv(Neg(burned_fuel), TRITIUM_BURN_TRIT_FACTOR)>>,
                            <<"O2", ~o2_no_combust,
                              FMul(Neg(h2),
                                   FSub(One, FDiv(One, TRITIUM_BURN_TRIT_FACTOR)))>> >>),
             energy_release)

\* the block run whether or not the reaction is active
trit_fire_unguarded(gm) == trit_fire_body(gm)

trit_fire(gm) == IF ~trit_fire_active(gm) THEN gm ELSE trit_fire_body(gm)

fusion_active(gm) ==
    Active(gm, << <<"H2", FUSION_TRITIUM_MOLES_USED>>, <<"Pl", FUSION_MOLE_THRESHOLD>>,
                  <<"CO2", FUSION_MOLE_THRESHOLD>> >>,
           FUSION_TEMPERATURE_THRESHOLD)

\* The intermediate values of the fusion body are gathered in a record that
\* grows as the body proceeds, so that every value is computed once.

\* scale_factor, temp_scale, toroidal_size, gas_power, instability
fusion_calc1(gm) ==
    [e |-> get_energy(gm),
     pl |-> gm.gases["Pl"],
     co2 |-> gm.gases["CO2"],
     scale_factor |-> FMax(FDiv(gm.volume, FUSION_SCALE_DIVISOR), FUSION_MINIMAL_SCALE),
     temp_scale |-> FLog10(gm.temperature),
     gas_power |-> get_fusion_power(gm)]

fusion_calc2(c) ==
    c @@ [toroidal_size |->
            FAdd(TOROID_CALCULATED_THRESHOLD,
                 IF FLe(c.temp_scale, FUSION_BASE_TEMPSCALE)
                 THEN FDiv(FSub(c.temp_scale, FUSION_BASE_TEMPSCALE), FUSION_BUFFER_DIVISOR)
                 ELSE FDiv(FPowF(FInt(4), FSub(c.temp_scale, FUSION_BASE_TEMPSCALE)),
                           FUSION_SLOPE_DIVISOR))]

fusion_calc3(c) ==
    c @@ [instability |->
            atmos_mod(FMul(c.gas_power, INSTABILITY_GAS_POWER_FACTOR), c.toroidal_size),
          scaled_plasma |-> FDiv(FSub(c.pl, FUSION_MOLE_THRESHOLD), c.scale_factor),
          scaled_carbon |-> FDiv(FSub(c.co2, FUSION_MOLE_THRESHOLD), c.scale_factor)]

fusion_calc4(c) ==
    c @@ [plasma_mod |->
            atmos_mod(FSub(c.scaled_plasma, FMul(c.instability, FSin(c.scaled_carbon))),
                      c.toroidal_size)]

fusion_calc5(c) ==
    c @@ [carbon_mod |-> atmos_mod(FSub(c.scaled_carbon, c.plasma_mod), c.toroidal_size),
          new_pl |-> FAdd(FMul(c.plasma_mod, c.scale_factor), FUSION_MOLE_THRESHOLD)]

fusion_calc6(c) ==
    c @@ [new_co2 |-> FAdd(FMul(c.carbon_mod, c.scale_factor), FUSION_MOLE_THRESHOLD),
          delta_plasma |-> FSub(c.new_pl, c.pl),
          active_plasma |->
            FMin(FSub(c.pl, c.new_pl),
                 FMul(FMul(c.toroidal_size, c.scale_factor), F(15, -1)))]

fusion_calc7(c) ==
    c @@ [delta_carbon |-> FSub(c.new_co2, c.co2),
          reaction_energy |->
            IF FLe(c.instability, FUSION_INSTABILITY_ENDOTHERMALITY)
               \/ FGt(c.active_plasma, Zero)
            THEN FMax(FMul(c.active_plasma, PLASMA_BINDING_ENERGY), Zero)
            ELSE FMul(FMul(c.active_plasma, PLASMA_BINDING_ENERGY),
                      FSqrt(FSub(c.instability, FUSION_INSTABILITY_ENDOTHERMALITY)))]

\* middle_energy, e_alpha
fusion_calc8(c) ==
    c @@ [middle_energy |->
            FMul(FAdd(FUSION_MOLE_THRESHOLD,
                      FDiv(FMul(TOROID_CALCULATED_THRESHOLD, c.scale_factor), FInt(2))),
                 FMul(FInt(200), FUSION_MIDDLE_ENERGY_REFERENCE))]

fusion_calc9(c) ==
    c @@ [e_alpha |->
            FMul(c.middle_energy,
                 FPowF(FUSION_ENERGY_TRANSLATION_EXPONENT,
                       FLog10(FDiv(c.e, c.middle_energy))))]

fusion_calc10(c) ==
    c @@ [bowdlerized |->
            FMax(FMin(c.reaction_energy,
                      FMul(c.e_alpha,
                           FSub(PowI(FUSION_ENERGY_TRANSLATION_EXPONENT, 2), One))),
                 FMul(c.e_alpha,
                      FSub(PowI(FUSION_ENERGY_TRANSLATION_EXPONENT, -2), One)))]

fusion_calc11(c) ==
    c @@ [new_e |->
            IF FNe(c.reaction_energy, Zero)
            THEN FMul(c.middle_energy,
                      FPowF(FInt(10),
                            FLog(FDiv(FAdd(c.e_alpha, c.bowdlerized), c.middle_energy),
                                 FUSION_ENERGY_TRANSLATION_EXPONENT)))
            ELSE c.e,
          waste_out |->
            FMul(FMul(c.scale_factor, FUSION_TRITIUM_CONVERSION_COEFFICIENT),
                 FUSION_TRITIUM_MOLES_USED)]

fusion_calc(gm) ==
    fusion_calc11(fusion_calc10(fusion_calc9(fusion_calc8(fusion_calc7(fusion_calc6(
        fusion_calc5(fusion_calc4(fusion_calc3(fusion_calc2(fusion_calc1(gm)))))))))))

\* the condition under which fusion returns gm + delta_mix rather than gm
fusion_applies(c) ==
    \/ FNe(c.reaction_energy, Zero)
    \/ FLe(c.instability, FUSION_INSTABILITY_ENDOTHERMALITY)

\* the waste credited to the wrong species
fusion_delta_mix_swapped(c) ==
    gen_gas_vec(<< <<"Pl", TRUE, FMax(c.delta_plasma, Neg(c.pl))>>,
                   <<"CO2", TRUE, FMax(c.delta_carbon, Neg(c.co2))>>,
                   <<"H2", TRUE, Neg(FUSION_TRITIUM_MOLES_USED)>>,
                   <<"H2O", FLe(c.active_plasma, Zero), c.waste_out>>,
                   <<"BZ", FGt(c.active_plasma, Zero), c.waste_out>>,
                   <<"O2", TRUE, c.waste_out>> >>)

fusion_delta_mix(c) ==
    gen_gas_vec(<< <<"Pl", TRUE, FMax(c.delta_plasma, Neg(c.pl))>>,
                   <<"CO2", TRUE, FMax(c.delta_carbon, Neg(c.co2))>>,
                   <<"H2", TRUE, Neg(FUSION_TRITIUM_MOLES_USED)>>,
                   <<"H2O", FGt(c.active_plasma, Zero), c.waste_out>>,
                   <<"BZ", FLe(c.active_plasma, Zero), c.waste_out>>,
                   <<"O2", TRUE, c.waste_out>> >>)

fusion_result(gm, c) ==
    IF fusion_applies(c)
    THEN GmAdd(gm, fusion_delta_mix(c), FSub(c.new_e, c.e))
    ELSE gm

fusion(gm) == IF ~fusion_active(gm) THEN gm ELSE fusion_result(gm, fusion_calc(gm))

nitryl_formation_active(gm) ==
    Active(gm, << <<"N2", FInt(20)>>, <<"O2", FInt(20)>>, <<"PlOx", FInt(5)>> >>,
           FMul(FIRE_MINIMUM_TEMPERATURE_TO_EXIST, FInt(60)))

nitryl_formation(gm) ==
    IF ~nitryl_formation_active(gm) THEN gm
    ELSE LET n2 == gm.gases["N2"]
             o2 == gm.gases["O2"]
             t == gm.temperature
             heat_eff ==
                 FMin(FMin(FDiv(FDiv(t, FIRE_MINIMUM_TEMPERATURE_TO_EXIST), FInt(60)), n2),
                      o2)
             energy_use == FMul(heat_eff, NITRYL_FORMATION_ENERGY)
         IN adjust_thermal_energy(
                [gm EXCEPT !.gases =
                    GasVecAdd(gm.gases,
                              gen_gas_vec(<< <<"N2", TRUE, Neg(heat_eff)>>,
                                             <<"O2", TRUE, Neg(heat_eff)>>,
                                             <<"NO2", TRUE, FMul(FInt(2), heat_eff)>> >>))],
                Neg(energy_use))

bz_synth_active(gm) ==
    Active(gm, << <<"N2O", FInt(10)>>, <<"Pl", FInt(10)>> >>, NInf)

bz_synth(gm) ==
    IF ~bz_synth_active(gm) THEN gm
    ELSE LET p == get_pressure(gm)
             pl == gm.gases["Pl"]
             n2o == gm.gases["N2O"]
             half_atm_pressure == FDiv(FMul(FInt(2), p), ONE_ATMOSPHERE)
             efficiency == PowI(FMul(half_atm_pressure, FMax(FDiv(pl, n2o), One)), -1)
             usage == FMin(FMin(efficiency, n2o), FDiv(pl, FInt(2)))
             is_balanced == FEq(usage, n2o)
             energy_release == FMul(FMul(FInt(2), usage), FIRE_CARBON_ENERGY_RELEASED)
             bz_prod == FSub(usage, FMax(p, One))
         IN GmAdd(gm,
                  gen_gas_vec(<< <<"N2O", TRUE, Neg(usage)>>,
                                 <<"Pl", TRUE, FMul(FInt(-2), usage)>>,
                                 <<"BZ", is_balanced, bz_prod>>,
                                 <<"O2", is_balanced, FMax(p, One)>> >>),
                  energy_release)

stimulum_synth_active(gm) ==
    Active(gm, << <<"H2", FInt(30)>>, <<"Pl", FInt(10)>>, <<"BZ", FInt(20)>>,
                  <<"NO2", FInt(30)>> >>,
           FDiv(STIMULUM_HEAT_SCALE, FInt(2)))

COEFFS == << One, STIMULUM_FIRST_RISE, Neg(STIMULUM_FIRST_DROP), STIMULUM_SECOND_RISE,
             Neg(STIMULUM_ABSOLUTE_DROP) >>

\* the exponents of the closed range 1..=5
stimulum_powers_inclusive == << 1, 2, 3, 4, 5 >>

\* the exponents (1..5): a half-open range
stimulum_powers == << 1, 2, 3, 4 >>

stimulum_heat_scale(gm) ==
    FMin(FMin(FMin(FDiv(gm.temperature, STIMULUM_HEAT_SCALE), gm.gases["Pl"]),
              gm.gases["NO2"]),
         gm.gases["H2"])

\* (1..5).zip(COEFFS.iter()).map(|(i, c)| c * heat_scale.powi(i)).sum(): zip
\* stops at the shorter side and pairs the k-th power with the k-th coefficient
RECURSIVE ZipSum(_, _, _, _)
ZipSum(powers, coeffs, h, k) ==
    IF k = 0 THEN Zero
    ELSE FAdd(ZipSum(powers, coeffs, h, k - 1), FMul(coeffs[k], PowI(h, powers[k])))

stimulum_energy_delta(gm) ==
    LET n == IF Len(stimulum_powers) < Len(COEFFS) THEN Len(stimulum_powers) ELSE Len(COEFFS)
    IN ZipSum(stimulum_powers, COEFFS, stimulum_heat_scale(gm), n)

stimulum_delta(gm) ==
    LET heat_scale == stimulum_heat_scale(gm)
    IN gen_gas_vec(<< <<"ST", TRUE, FDiv(heat_scale, FInt(10))>>,
                      <<"Pl", TRUE, Neg(heat_scale)>>,
                      <<"NO2", TRUE, Neg(heat_scale)>>,
                      <<"H2", TRUE, Neg(heat_scale)>> >>)

stimulum_synth(gm) ==
    IF ~stimulum_synth_active(gm) THEN gm
    ELSE GmAdd(gm, stimulum_delta(gm), stimulum_energy_delta(gm))

hnob_synth_active(gm) ==
    Active(gm, << <<"N2", FInt(10)>>, <<"H2", FInt(5)>> >>, F(5, 6))

hnob_energy_used(gm, nob_formed) ==
    FDiv(FMul(nob_formed, NOBLIUM_FORMATION_ENERGY), FMax(gm.gases["BZ"], One))

hnob_synth(gm) ==
    IF ~hnob_synth_active(gm) THEN gm
    ELSE LET n2 == gm.gases["N2"]
             h2 == gm.gases["H2"]
             nob_formed ==
                 FMin(FMin(FMul(F(1, -2), FAdd(n2, h2)), FDiv(h2, FInt(10))),
                      FDiv(n2, FInt(20)))
             energy_used == hnob_energy_used(gm, nob_formed)
         IN GmAdd(gm,
                  gen_gas_vec(<< <<"H2", TRUE, FMul(FInt(-10), nob_formed)>>,
                                 <<"N2", TRUE, FMul(FInt(-20), nob_formed)>>,
                                 <<"HNb", TRUE, nob_formed>> >>),
                  Neg(energy_used))

\* the chain with plasma fire ahead of tritium fire
chain_plasma_first == << "n2o_decomp", "plasma_fire", "trit_fire", "fusion", "nitryl_formation",
                         "bz_synth", "stimulum_synth", "hnob_synth" >>

\* chained_call!(gm => n2o_decomp => ... => hnob_synth): the order of the chain
chain == << "n2o_decomp", "trit_fire", "plasma_fire", "fusion", "nitryl_formation",
            "bz_synth", "stimulum_synth", "hnob_synth" >>

apply(name, gm) ==
    CASE name = "n2o_decomp" -> n2o_decomp(gm)
      [] name = "trit_fire" -> trit_fire(gm)
      [] name = "plasma_fire" -> plasma_fire(gm)
      [] name = "fusion" -> fusion(gm)
      [] name = "nitryl_formation" -> nitryl_formation(gm)
      [] name = "bz_synth" -> bz_synth(gm)
      [] name = "stimulum_synth" -> stimulum_synth(gm)
      [] name = "hnob_synth" -> hnob_synth(gm)

is_active(name, gm) ==
    CASE name = "n2o_decomp" -> n2o_decomp_active(gm)
      [] name = "trit_fire" -> trit_fire_active(gm)
      [] name = "plasma_fire" -> plasma_fire_active(gm)
      [] name = "fusion" -> fusion_active(gm)
      [] name = "nitryl_formation" -> nitryl_formation_active(gm)
      [] name = "bz_synth" -> bz_synth_active(gm)
      [] name = "stimulum_synth" -> stimulum_synth_active(gm)
      [] name = "hnob_synth" -> hnob_synth_active(gm)

\* the links n..last of a chain applied to gm, left to right; each link's
\* result is a value before the next link is entered
RECURSIVE chained_from(_, _, _, _)
chained_from(links, gm, n, last) ==
    IF n > last THEN gm
    ELSE LET out == apply(links[n], gm)
         IN IF out = gm THEN chained_from(links, gm, n + 1, last)
            ELSE chained_from(links, out, n + 1, last)

chained_call(gm) == chained_from(chain, gm, 1, Len(chain))

react_once(gm) == IF verify_hnob(gm) THEN chained_call(gm) ELSE gm

(* ------------------------------- inputs -------------------------------- *)

RECURSIVE MolesOf(_, _, _)
MolesOf(entries, g, i) ==
    IF i > Len(entries) THEN Zero
    ELSE IF entries[i][1] = g THEN entries[i][2] ELSE MolesOf(entries, g, i + 1)

Mix(entries, vol, temp) ==
    [gases |-> [O2 |-> MolesOf(entries, "O2", 1), N2 |-> MolesOf(entries, "N2", 1),
               CO2 |-> MolesOf(entries, "CO2", 1), Pl |-> MolesOf(entries, "Pl", 1),
               H2 |-> MolesOf(entries, "H2", 1), H2O |-> MolesOf(entries, "H2O", 1),
               N2O |-> MolesOf(entries, "N2O", 1), NO2 |-> MolesOf(entries, "NO2", 1),
               BZ |-> MolesOf(entries, "BZ", 1), ST |-> MolesOf(entries, "ST", 1),
               HNb |-> MolesOf(entries, "HNb", 1),
               PlOx |-> MolesOf(entries, "PlOx", 1)],
     volume |-> vol, temperature |-> temp]

\* the mixtures the drivers are called on
Inputs ==
    << \* only N2O decomposition
       Mix(<< <<"N2O", FInt(100)>> >>, FInt(1000), FInt(2000)),
       \* tritium fire, combusting and oxygen-starved
       Mix(<< <<"H2", FInt(100)>>, <<"O2", FInt(200)>> >>, FInt(1000), FInt(500)),
       Mix(<< <<"H2", FInt(200)>>, <<"O2", FInt(100)>> >>, FInt(1000), FInt(500)),
       \* tritium fire that burns out: the second tick is inert
       Mix(<< <<"H2", F(5, -2)>>, <<"O2", FInt(1)>> >>, FInt(1000), FInt(500)),
       \* tritium fire and plasma fire both active
       Mix(<< <<"Pl", FInt(100)>>, <<"H2", FInt(50)>>, <<"O2", FInt(500)>> >>,
           FInt(1000), FInt(1000)),
       \* oxygen-starved plasma fire
       Mix(<< <<"Pl", FInt(5000)>>, <<"O2", FInt(9)>> >>, FInt(1000), FInt(1143)),
       \* hyper-noblium at and above the quench threshold, everything else reactive
       Mix(<< <<"O2", FInt(200)>>, <<"N2", FInt(100)>>, <<"CO2", FInt(300)>>,
              <<"Pl", FInt(300)>>, <<"H2", FInt(100)>>, <<"H2O", FInt(1)>>,
              <<"N2O", FInt(50)>>, <<"NO2", FInt(50)>>, <<"BZ", FInt(30)>>,
              <<"ST", FInt(1)>>, <<"HNb", FInt(10)>>, <<"PlOx", FInt(10)>> >>,
           FInt(1000), F(1, 7)),
       Mix(<< <<"H2", FInt(100)>>, <<"O2", FInt(200)>>, <<"HNb", FInt(5)>> >>,
           FInt(1000), FInt(500)),
       \* fusion: active but without effect, producing BZ, producing H2O
       Mix(<< <<"H2", FInt(250)>>, <<"Pl", FInt(250)>>, <<"CO2", FInt(250)>> >>,
           FInt(1000), F(1, 6)),
       Mix(<< <<"H2", FInt(100)>>, <<"Pl", FInt(300)>>, <<"CO2", FInt(400)>> >>,
           FInt(1000), F(1, 7)),
       Mix(<< <<"H2", FInt(100)>>, <<"Pl", FInt(650)>>, <<"CO2", FInt(400)>> >>,
           FInt(1000), F(1, 7)),
       \* fusion heating a mixture that hyper-noblium synthesis was too cold for
       Mix(<< <<"H2", FInt(100)>>, <<"Pl", FInt(650)>>, <<"CO2", FInt(400)>>,
              <<"N2", FInt(100)>> >>, FInt(1000), F(4, 6)),
       \* nitryl formation
       Mix(<< <<"N2", FInt(100)>>, <<"O2", FInt(100)>>, <<"PlOx", FInt(10)>> >>,
           FInt(1000), F(3, 4)),
       \* BZ synthesis, unbalanced and balanced
       Mix(<< <<"N2O", FInt(20)>>, <<"Pl", FInt(100)>> >>, FInt(1000), FInt(300)),
       Mix(<< <<"N2O", FInt(10)>>, <<"Pl", FInt(40)>> >>, FInt(1000), Zero),
       \* stimulum synthesis, moderate and very hot
       Mix(<< <<"H2", FInt(100)>>, <<"Pl", FInt(100)>>, <<"BZ", FInt(50)>>,
              <<"NO2", FInt(100)>> >>, FInt(1000), F(1, 6)),
       Mix(<< <<"H2", F(1, 6)>>, <<"Pl", F(1, 6)>>, <<"BZ", FInt(20)>>,
              <<"NO2", F(1, 6)>> >>, FInt(1000), F(1, 11)),
       \* hyper-noblium synthesis
       Mix(<< <<"N2", FInt(100)>>, <<"H2", FInt(50)>> >>, FInt(1000), F(1, 7)),
       Mix(<< <<"N2", FInt(2000)>>, <<"H2", FInt(1000)>>, <<"BZ", FInt(10)>> >>,
           FInt(1000), F(5, 6)),
       \* inert: cold, and every species just below the minimum mole count
       Mix(<< <<"H2", FInt(100)>>, <<"O2", FInt(200)>>, <<"Pl", FInt(100)>> >>,
           FInt(1000), FInt(300)),
       Mix(<< <<"O2", F(9, -3)>>, <<"N2", F(9, -3)>>, <<"CO2", F(9, -3)>>,
              <<"Pl", F(9, -3)>>, <<"H2", F(9, -3)>>, <<"H2O", F(9, -3)>>,
              <<"N2O", F(9, -3)>>, <<"NO2", F(9, -3)>>, <<"BZ", F(9, -3)>>,
              <<"ST", F(9, -3)>>, <<"PlOx", F(9, -3)>> >>, FInt(1000), F(1, 7)),
       \* finite mixtures near the top of the f64 range
       Mix(<< <<"H2", F(1, 300)>>, <<"O2", F(1, 300)>> >>, FInt(1000), F(1, 10)),
       Mix(<< <<"N2O", F(1, 308)>> >>, FInt(1000), FInt(2000)) >>

(* ------------------------------- drivers ------------------------------- *)

MaxTimes == 2
MaxIter == 3

Drivers == {"react_once", "react_several", "react_until_done"}

VARIABLES gm, driver, times, pc, tin, pre, acc, stage, cur, result, i,
          prev_gm, next_gm, iters, ret

vars == << gm, driver, times, pc, tin, pre, acc, stage, cur, result, i,
           prev_gm, next_gm, iters, ret >>

Returned == Len(chain) + 1

Init ==
    /\ gm \in { Inputs[n] : n \in 1..Len(Inputs) }
    /\ driver \in Drivers
    /\ times \in (IF driver = "react_several" THEN 0..MaxTimes ELSE {0})
    /\ pc = "start"
    /\ tin = gm /\ pre = gm /\ acc = gm /\ stage = 0
    /\ cur = gm /\ result = << >> /\ i = 1
    /\ prev_gm = gm /\ next_gm = gm /\ iters = 0
    /\ ret = gm

\* react_once(m) is entered: the hyper-noblium guard either starts the chain
\* or returns m at once
Enter(m) ==
    /\ tin' = m /\ pre' = m /\ acc' = m
    /\ stage' = IF verify_hnob(m) THEN 1 ELSE Returned

\* one link of the chain: the reaction at position `stage` is applied to the
\* value the previous link returned
Step(name, out) ==
    /\ stage \in 1..Len(chain)
    /\ chain[stage] = name
    /\ pre' = acc
    /\ acc' = out
    /\ stage' = stage + 1
    /\ UNCHANGED << gm, driver, times, pc, tin, cur, result, i, prev_gm, next_gm, iters, ret >>

StepN2ODecomp == Step("n2o_decomp", n2o_decomp(acc))
StepTritFire == Step("trit_fire", trit_fire(acc))
StepPlasmaFire == Step("plasma_fire", plasma_fire(acc))
StepFusion == Step("fusion", fusion(acc))
StepNitrylFormation == Step("nitryl_formation", nitryl_formation(acc))
StepBZSynth == Step("bz_synth", bz_synth(acc))
StepStimulumSynth == Step("stimulum_synth", stimulum_synth(acc))
StepHNbSynth == Step("hnob_synth", hnob_synth(acc))

OnceCall ==
    /\ pc = "start" /\ driver = "react_once"
    /\ Enter(gm)
    /\ pc' = "call"
    /\ UNCHANGED << gm, driver, times, cur, result, i, prev_gm, next_gm, iters, ret >>

OnceReturn ==
    /\ pc = "call" /\ driver = "react_once" /\ stage = Returned
    /\ ret' = acc
    /\ pc' = "done" /\ stage' = 0
    /\ UNCHANGED << gm, driver, times, tin, pre, acc, cur, result, i, prev_gm, next_gm, iters >>

\* for _ in 1..=times
several_in_range(n, t) == n <= t

\* the mixture pushed before it has reacted
several_push_before(res, before, after) == Append(res, before)

several_push(res, before, after) == Append(res, after)

SeveralInit ==
    /\ pc = "start" /\ driver = "react_several"
    /\ cur' = gm /\ result' = << >> /\ i' = 1
    /\ pc' = "test"
    /\ UNCHANGED << gm, driver, times, tin, pre, acc, stage, prev_gm, next_gm, iters, ret >>

SeveralCall ==
    /\ pc = "test" /\ driver = "react_several"
    /\ several_in_range(i, times)
    /\ i <= MaxTimes + 1
    /\ Enter(cur)
    /\ pc' = "call"
    /\ UNCHANGED << gm, driver, times, cur, result, i, prev_gm, next_gm, iters, ret >>

SeveralPush ==
    /\ pc = "call" /\ driver = "react_several" /\ stage = Returned
    /\ cur' = acc
    /\ result' = several_push(result, cur, acc)
    /\ i' = i + 1
    /\ pc' = "test" /\ stage' = 0
    /\ UNCHANGED << gm, driver, times, tin, pre, acc, prev_gm, next_gm, iters, ret >>

SeveralReturn ==
    /\ pc = "test" /\ driver = "react_several"
    /\ ~several_in_range(i, times)
    /\ pc' = "done"
    /\ UNCHANGED << gm, driver, times, tin, pre, acc, stage, cur, result, i,
                    prev_gm, next_gm, iters, ret >>

\* the loop test inverted
until_done_continue_inverted(prev, next) == GmEq(prev, next)

\* while prev_gm != next_gm
until_done_continue(prev, next) == ~GmEq(prev, next)

UntilFirstCall ==
    /\ pc = "start" /\ driver = "react_until_done"
    /\ prev_gm' = gm
    /\ Enter(gm)
    /\ pc' = "first_call"
    /\ UNCHANGED << gm, driver, times, cur, result, i, next_gm, iters, ret >>

UntilFirstReturn ==
    /\ pc = "first_call" /\ stage = Returned
    /\ next_gm' = acc
    /\ pc' = "test" /\ stage' = 0
    /\ UNCHANGED << gm, driver, times, tin, pre, acc, cur, result, i, prev_gm, iters, ret >>

UntilLoopCall ==
    /\ pc = "test" /\ driver = "react_until_done"
    /\ until_done_continue(prev_gm, next_gm)
    /\ iters < MaxIter
    /\ prev_gm' = next_gm
    /\ Enter(next_gm)
    /\ pc' = "call"
    /\ UNCHANGED << gm, driver, times, cur, result, i, next_gm, iters, ret >>

UntilLoopReturn ==
    /\ pc = "call" /\ driver = "react_until_done" /\ stage = Returned
    /\ next_gm' = acc
    /\ iters' = iters + 1
    /\ pc' = "test" /\ stage' = 0
    /\ UNCHANGED << gm, driver, times, tin, pre, acc, cur, result, i, prev_gm, ret >>

UntilReturn ==
    /\ pc = "test" /\ driver = "react_until_done"
    /\ ~until_done_continue(prev_gm, next_gm)
    /\ ret' = next_gm
    /\ pc' = "done"
    /\ UNCHANGED << gm, driver, times, tin, pre, acc, stage, cur, result, i,
                    prev_gm, next_gm, iters >>

Next ==
    \/ StepN2ODecomp \/ StepTritFire \/ StepPlasmaFire \/ StepFusion
    \/ StepNitrylFormation \/ StepBZSynth \/ StepStimulumSynth \/ StepHNbSynth
    \/ OnceCall \/ OnceReturn
    \/ SeveralInit \/ SeveralCall \/ SeveralPush \/ SeveralReturn
    \/ UntilFirstCall \/ UntilFirstReturn \/ UntilLoopCall \/ UntilLoopReturn
    \/ UntilReturn

Spec == Init /\ [][Next]_vars

(* ------------------------------ properties ----------------------------- *)

Quenched(m) == FGe(m.gases["HNb"], FInt(5))

\* the reaction whose result acc holds, if a chain link has just run
LastStep == IF stage \in 2..Returned /\ verify_hnob(tin) THEN chain[stage - 1] ELSE "none"

NoneActive(m) == \A n \in 1..Len(chain) : ~is_active(chain[n], m)

OnlyActive(name, m) ==
    \A n \in 1..Len(chain) : is_active(chain[n], m) <=> chain[n] = name

\* C1: on a mixture with HNb >= 5 no reaction of the chain ever runs, so that
\* react_once returns its argument, react_until_done leaves its loop at the
\* first test and returns the argument, and react_several returns `times`
\* copies of it.
C1_HNbQuench ==
    Quenched(gm) =>
        /\ stage \in {0, Returned}
        /\ acc = gm /\ tin = gm
        /\ \A k \in 1..Len(result) : result[k] = gm
        /\ (driver = "react_several" /\ pc = "done") => Len(result) = times
        /\ driver = "react_until_done" =>
              /\ iters = 0
              /\ pc = "test" => ~until_done_continue(prev_gm, next_gm)
        /\ pc = "done" => ret = gm

C1_Witness ==
    /\ Quenched(gm) /\ trit_fire_active(gm)
    /\ pc = "done"
    /\ driver = "react_several" /\ times >= 2

\* C2: inside react_once on an unquenched mixture, the value after k links of
\* the chain is the k-th reaction applied to the value after k-1 links, in
\* the order N2O decomposition, tritium fire, plasma fire, fusion, nitryl
\* formation, BZ synthesis, stimulum synthesis, HNb synthesis; the value
\* returned is the output of the last one.
C2_ChainOrder ==
    (stage \in 1..Returned /\ verify_hnob(tin)) =>
        acc = chained_from(<< "n2o_decomp", "trit_fire", "plasma_fire", "fusion",
                              "nitryl_formation", "bz_synth", "stimulum_synth",
                              "hnob_synth" >>,
                           tin, 1, stage - 1)

\* plasma fire has run on the output of tritium fire, which differs from what
\* it would have returned on the tick's input
C2_Witness ==
    /\ verify_hnob(tin)
    /\ stage = 4
    /\ trit_fire_active(tin) /\ plasma_fire_active(tin)
    /\ trit_fire(tin) # tin
    /\ acc # plasma_fire(tin)

\* C3: the mixture react_until_done returns is a fixed point of react_once.
C3_FixedPoint ==
    (driver = "react_until_done" /\ pc = "done") => GmEq(react_once(ret), ret)

\* the loop body has run and the result differs from the argument
C3_Witness ==
    /\ driver = "react_until_done" /\ pc = "done"
    /\ iters >= 1
    /\ ~GmEq(ret, gm)

\* C4: react_several(m, N) returns exactly N mixtures, the first react_once(m)
\* and each later one react_once of its predecessor; N = 0 gives the empty
\* sequence.
C4_Several ==
    driver = "react_several" =>
        /\ \A k \in 1..Len(result) :
              result[k] = react_once(IF k = 1 THEN gm ELSE result[k - 1])
        /\ pc = "done" => Len(result) = times

C4_Witness ==
    /\ driver = "react_several" /\ pc = "done"
    /\ times >= 2
    /\ result[1] # gm
    /\ result[2] # result[1]

MolesNonNegative(m) == \A g \in Gas : FGe(m.gases[g], Zero)

AllFinite(m) ==
    /\ \A g \in Gas : IsFinite(m.gases[g])
    /\ IsFinite(m.temperature)
    /\ IsFinite(m.volume)

\* C5: every mixture a tick produces from a well-formed mixture, at every link
\* of the chain and in every value a driver returns, has moles >= 0 in every
\* species.
C5_MolesNonNegative ==
    /\ MolesNonNegative(acc)
    /\ MolesNonNegative(ret)
    /\ MolesNonNegative(next_gm)
    /\ \A k \in 1..Len(result) : MolesNonNegative(result[k])

\* plasma fire has exhausted the oxygen: the burn asked for at least as much
\* as there was and the composition left zero
C5_Witness ==
    /\ LastStep = "plasma_fire"
    /\ plasma_fire_active(pre)
    /\ FGt(pre.gases["O2"], Zero)
    /\ acc.gases["O2"] = Zero
    /\ FLt(acc.gases["Pl"], pre.gases["Pl"])

\* C6: every mixture a tick produces from a well-formed mixture has
\* temperature >= 0.
C6_TemperatureNonNegative ==
    /\ FGe(acc.temperature, Zero)
    /\ FGe(ret.temperature, Zero)
    /\ \A k \in 1..Len(result) : FGe(result[k].temperature, Zero)

\* C7: a reaction that is inactive on the mixture it receives returns that
\* mixture, and a tick on a mixture on which no reaction is active returns it
\* with every mole entry, the temperature and the volume unchanged.
C7_InertInput ==
    /\ (LastStep # "none" /\ ~is_active(LastStep, pre)) => acc = pre
    /\ (stage = Returned /\ verify_hnob(tin) /\ NoneActive(tin)) =>
          /\ \A g \in Gas : acc.gases[g] = tin.gases[g]
          /\ acc.temperature = tin.temperature
          /\ acc.volume = tin.volume

\* a whole tick has run on a mixture that holds tritium, oxygen and plasma but
\* is too cold for any reaction
C7_Witness ==
    /\ stage = Returned /\ verify_hnob(tin) /\ NoneActive(tin)
    /\ FGe(tin.gases["H2"], MINIMUM_MOLE_COUNT)
    /\ FGe(tin.gases["O2"], MINIMUM_MOLE_COUNT)
    /\ FGe(tin.gases["Pl"], MINIMUM_MOLE_COUNT)
    /\ acc = tin

\* C8: no mixture produced from a finite mixture, by a link of the chain or
\* returned by a driver, holds NaN or an infinity in a mole entry or in the
\* temperature.
C8_FailClosed ==
    AllFinite(gm) =>
        /\ AllFinite(acc)
        /\ AllFinite(ret)
        /\ \A k \in 1..Len(result) : AllFinite(result[k])

\* h = min(t / STIMULUM_HEAT_SCALE, gm[Pl], gm[NO2], gm[H2])
StimulumH(m) ==
    FMin(FMin(FMin(FDiv(m.temperature, STIMULUM_HEAT_SCALE), m.gases["Pl"]),
              m.gases["NO2"]),
         m.gases["H2"])

\* 1*h + FIRST_RISE*h^2 - FIRST_DROP*h^3 + SECOND_RISE*h^4, summed left to right
StimulumPairedFromFirst(h) ==
    FAdd(FAdd(FAdd(FAdd(Zero, FMul(One, PowI(h, 1))),
                   FMul(STIMULUM_FIRST_RISE, PowI(h, 2))),
              FMul(Neg(STIMULUM_FIRST_DROP), PowI(h, 3))),
         FMul(STIMULUM_SECOND_RISE, PowI(h, 4)))

\* FIRST_RISE*h - FIRST_DROP*h^2 + SECOND_RISE*h^3 - ABSOLUTE_DROP*h^4
StimulumPairedFromSecond(h) ==
    FAdd(FAdd(FAdd(FAdd(Zero, FMul(STIMULUM_FIRST_RISE, PowI(h, 1))),
                   FMul(Neg(STIMULUM_FIRST_DROP), PowI(h, 2))),
              FMul(STIMULUM_SECOND_RISE, PowI(h, 3))),
         FMul(Neg(STIMULUM_ABSOLUTE_DROP), PowI(h, 4)))

\* C9 (as claimed): the mixture stimulum synthesis returns is its input composed
\* with the stimulum delta at the energy
\* FIRST_RISE*h - FIRST_DROP*h^2 + SECOND_RISE*h^3 - ABSOLUTE_DROP*h^4.
C9_Claimed ==
    (LastStep = "stimulum_synth" /\ stimulum_synth_active(pre)) =>
        acc = GmAdd(pre, stimulum_delta(pre), StimulumPairedFromSecond(StimulumH(pre)))

\* C9 (amended): the exponent i in 1..4 is paired with the coefficient at
\* index i-1, so the energy of the step is
\* h + FIRST_RISE*h^2 - FIRST_DROP*h^3 + SECOND_RISE*h^4 and the coefficient
\* left unused is the last one, -ABSOLUTE_DROP.
C9_StimulumEnergy ==
    (LastStep = "stimulum_synth" /\ stimulum_synth_active(pre)) =>
        /\ stimulum_energy_delta(pre) = StimulumPairedFromFirst(StimulumH(pre))
        /\ acc = GmAdd(pre, stimulum_delta(pre), StimulumPairedFromFirst(StimulumH(pre)))

\* stimulum synthesis has run on a mixture on which the two pairings give
\* different temperatures
C9_Witness ==
    /\ LastStep = "stimulum_synth" /\ stimulum_synth_active(pre)
    /\ FGt(acc.gases["ST"], pre.gases["ST"])
    /\ GmAdd(pre, stimulum_delta(pre), StimulumPairedFromFirst(StimulumH(pre))).temperature
         # GmAdd(pre, stimulum_delta(pre), StimulumPairedFromSecond(StimulumH(pre))).temperature

\* w = scale * FUSION_TRITIUM_CONVERSION_COEFFICIENT * FUSION_TRITIUM_MOLES_USED
FusionWaste(m) ==
    FMul(FMul(FMax(FDiv(m.volume, FUSION_SCALE_DIVISOR), FUSION_MINIMAL_SCALE),
              FUSION_TRITIUM_CONVERSION_COEFFICIENT),
         FUSION_TRITIUM_MOLES_USED)

\* H2 lower by FUSION_TRITIUM_MOLES_USED, the volume unchanged, and the waste
\* added to H2O when active plasma > 0 and to BZ otherwise, the other of the
\* two unchanged
FusionStoichiometry(before, after) ==
    /\ after.gases["H2"] = FSub(before.gases["H2"], FUSION_TRITIUM_MOLES_USED)
    /\ after.volume = before.volume
    /\ IF FGt(fusion_calc(before).active_plasma, Zero)
       THEN /\ after.gases["H2O"] = FAdd(before.gases["H2O"], FusionWaste(before))
            /\ after.gases["BZ"] = before.gases["BZ"]
       ELSE /\ after.gases["BZ"] = FAdd(before.gases["BZ"], FusionWaste(before))
            /\ after.gases["H2O"] = before.gases["H2O"]

\* C10 (as claimed): a tick on a mixture on which fusion and no other reaction
\* is active returns a mixture with the fusion stoichiometry.
C10_Claimed ==
    (stage = Returned /\ verify_hnob(tin) /\ OnlyActive("fusion", tin)) =>
        FusionStoichiometry(tin, acc)

\* C10 (amended): the same, provided fusion applies its delta (the reaction
\* energy is not zero or the instability is at most
\* FUSION_INSTABILITY_ENDOTHERMALITY) and no other reaction is active on the
\* mixture fusion returns either.
C10_FusionStoichiometry ==
    (/\ stage = Returned /\ verify_hnob(tin)
     /\ OnlyActive("fusion", tin)
     /\ fusion_applies(fusion_calc(tin))
     /\ OnlyActive("fusion", fusion(tin)) \/ NoneActive(fusion(tin))) =>
        FusionStoichiometry(tin, acc)

\* a tick in which fusion alone has acted: tritium was used and the waste went
\* to H2O
C10_Witness ==
    /\ stage = Returned /\ verify_hnob(tin)
    /\ OnlyActive("fusion", tin)
    /\ fusion_applies(fusion_calc(tin))
    /\ OnlyActive("fusion", fusion(tin)) \/ NoneActive(fusion(tin))
    /\ FLt(acc.gases["H2"], tin.gases["H2"])
    /\ FGt(acc.gases["H2O"], tin.gases["H2O"])

====
